---- MODULE Spec2Model ----
(***************************************************************************)
(* Scheduling core of wenbot.py: main() registers two interval jobs        *)
(* (viral_video_gen, seo_regen) on an APScheduler BackgroundScheduler with *)
(* a SQLAlchemyJobStore and two ThreadPoolExecutors, starts it and sleeps. *)
(*                                                                         *)
(* Time is counted in whole hours (the unit of both add_job intervals).    *)
(* The library behaviour the calls in main() select is modelled as the     *)
(* APScheduler 3.x defaults: coalesce = True, max_instances = 1,           *)
(* misfire_grace_time = 1 second, executor alias 'default'.                *)
(***************************************************************************)
EXTENDS Integers, Sequences, FiniteSets, TLC

\* ------------------------------------------------------------ bounds
MaxTime == 25
\* crashes and storage faults together
MaxDisruptions == 1
E2EHorizon == 21

\* ------------------------------------------------- program constants
VideoIntervalHours == 4
SeoIntervalHours == 24
DefaultPoolSize == 20
ProcessPoolSize == 5
\* add_job passes no max_instances: the scheduler's job default applies
MaxInstances == 1

Jobs == {"viral_video_gen", "seo_regen"}
Executors == {"default", "processpool"}
None == -1

\* executors = {'default': ThreadPoolExecutor(20), 'processpool': ThreadPoolExecutor(5)}
PoolSize(e) == IF e = "default" THEN DefaultPoolSize ELSE ProcessPoolSize

\* The resource category the source declares for each job: the comments of
\* the executors dict ("I/O bound tasks (Scraping)", "CPU bound tasks
\* (Video Rendering)").
DeclaredPool(j) == IF j = "viral_video_gen" THEN "processpool" ELSE "default"

\* hours= of the two add_job calls
ConfiguredInterval == [j \in Jobs |-> IF j = "viral_video_gen" THEN VideoIntervalHours
                                      ELSE SeoIntervalHours]

VARIABLES
    now,          \* wall clock, hours
    proc,         \* "down" | "up" (main thread in its sleep loop) |
                  \* "stopping" (main thread inside scheduler.shutdown()) | "exited"
    schedAlive,   \* the BackgroundScheduler's thread is running _main_loop
    interval,     \* hours= of each job (fixed in Init)
    store,        \* SQLAlchemyJobStore: job id -> [next_run_time, start_date] or NoRecord
    storeState,   \* "ok" | "locked" (reads work, writes raise) | "down"
    running,      \* executions submitted to a pool and not yet called back
    runState,     \* per job, what the executor reported for its runs
    crashes,      \* number of crashes so far
    faults,       \* number of storage faults so far
    video         \* what the calls of process_video so far left on disk

vars == <<now, proc, schedAlive, interval, store, storeState, running, runState,
          crashes, faults, video>>

\* RESOURCES_DIR and OUTPUT_DIR/shorts before the first video run
NoVideoRun == [runs |-> 0, temp |-> 0, outputs |-> 0, input |-> <<>>, last |-> <<>>]

NoRecord == [next_run_time |-> None, start_date |-> None]

NeverRun == [lastRunAt |-> None, lastFireAt |-> None, lastStatus |-> "Never",
             lastOutcome |-> "none", consecutiveFailures |-> 0, runs |-> 0]

\* ----------------------------------------------------- pure functions

\* IntervalTrigger.get_next_fire_time(previous_fire_time, now)
\* (variant: the next fire time counted from the end of the hour of dispatch)
M_GetNextFireTime_FromNow(prev, t, start, iv) == IF prev # None THEN t + iv + 1 ELSE start

GetNextFireTime(prev, t, start, iv) ==
    IF prev # None THEN prev + iv
    ELSE IF start > t THEN start
    ELSE LET diff == t - start
             n == (diff + iv - 1) \div iv
         IN start + iv * n

\* Job._get_run_times(now): every fire time from next_run_time up to now
RECURSIVE GetRunTimes(_, _, _)
GetRunTimes(next, t, iv) ==
    IF next = None \/ next > t THEN <<>>
    ELSE <<next>> \o GetRunTimes(next + iv, t, iv)

\* run_times[-1:] if run_times and job.coalesce else run_times   (coalesce = True)
Coalesce(rts) == IF Len(rts) > 0 THEN <<rts[Len(rts)]>> ELSE rts

\* BaseExecutor._instances[job.id] of executor e
Instances(e, j) == Cardinality({r \in running : r.job = j /\ r.pool = e})

\* Tasks handed to executor e's thread pool and not finished
PoolLoad(e) == Cardinality({r \in running : r.pool = e})

\* add_job(...) names no executor: the job runs in the executor aliased 'default'
JobExecutor(j) == "default"

\* BaseExecutor.submit_job: raise MaxInstancesReachedError or hand to the pool
\* (variant: no max_instances check)
M_CanSubmit_NoLimit(e, j) == TRUE

CanSubmit(e, j) == Instances(e, j) < MaxInstances

\* ------------------------------------------------------- the pipelines

\* What the collaborators of the video pipeline can do. The Pexels search
\* answers with footage ("ok"), with a status other than 200, with an empty
\* list, or the request or its parsing raises ("exception"); or the search
\* succeeds and the download of the chosen file raises after open() has
\* created the temp file ("download_failed"). The logger, os.path.exists and
\* os.remove are taken to succeed.
FetchResults == {"ok", "http_error", "no_videos", "exception", "download_failed"}
ScriptResults == {"ok", "exception"}
RenderResults == {"ok", "exception"}
WriteResults == {"ok", "exception"}

\* The log lines that report how a run ended
StatusLines == {"SUCCESS: Viral Video generated", "Video Processing Error",
                "Pexels fetch failed"}

\* ViralVideoEngine.fetch_footage: the path of the downloaded file, or None on
\* any failure; `file` tells whether a temp_video file is on disk afterwards.
fetch_footage(f) ==
    CASE f = "ok" ->
           [path |-> "temp_video", file |-> TRUE, log |-> <<"Downloading footage">>]
      [] f \in {"http_error", "no_videos"} ->
           [path |-> "None", file |-> FALSE, log |-> <<>>]
      [] f = "exception" ->
           [path |-> "None", file |-> FALSE, log |-> <<"Pexels fetch failed">>]
      [] f = "download_failed" ->
           [path |-> "None", file |-> TRUE,
            log |-> <<"Downloading footage", "Pexels fetch failed">>]

\* ViralVideoEngine.generate_script: the generated text, or the fallback
\* (variant: the request's exception is not caught)
M_generate_script_Raises(s) ==
    IF s = "ok" THEN [text |-> "generated", raised |-> FALSE, log |-> <<>>]
    ELSE [text |-> "none", raised |-> TRUE, log |-> <<>>]

generate_script(s) ==
    IF s = "ok" THEN [text |-> "generated", raised |-> FALSE, log |-> <<>>]
    ELSE [text |-> "Risk everything to win everything. Link in bio.", raised |-> FALSE,
          log |-> <<"LLM Gen failed">>]

\* ViralVideoEngine.process_video. The result tells whether the call raised,
\* how it ended, the steps it took, its log lines, whether a temp_video file
\* is left on disk, whether an output file was written and the caption used.
process_video(f, s, r) ==
    LET footage == fetch_footage(f)
        started == <<"Starting Video Generation Pipeline">>
    IN IF footage.path = "None"
       THEN [raised |-> FALSE, outcome |-> "fetch_failed",
             calls |-> <<"fetch_footage">>, log |-> started \o footage.log,
             temp |-> footage.file, output |-> FALSE, script |-> "none"]
       ELSE LET script == generate_script(s)
                sofar == started \o footage.log \o script.log
            IN IF script.raised
               THEN [raised |-> TRUE, outcome |-> "script_failed",
                     calls |-> <<"fetch_footage", "generate_script">>, log |-> sofar,
                     temp |-> footage.file, output |-> FALSE, script |-> script.text]
               ELSE IF r = "ok"
               THEN [raised |-> FALSE, outcome |-> "artifact",
                     calls |-> <<"fetch_footage", "generate_script", "write_videofile",
                                 "os.remove">>,
                     log |-> sofar \o <<"SUCCESS: Viral Video generated">>,
                     temp |-> FALSE, output |-> TRUE, script |-> script.text]
               ELSE [raised |-> FALSE, outcome |-> "render_failed",
                     calls |-> <<"fetch_footage", "generate_script", "os.remove">>,
                     log |-> sofar \o <<"Video Processing Error">>,
                     temp |-> FALSE, output |-> FALSE, script |-> script.text]

\* PSEOGenerator.build_pages: no try/except, a failed write propagates
build_pages(w) ==
    IF w = "ok" THEN [raised |-> FALSE, outcome |-> "artifact"]
    ELSE [raised |-> TRUE, outcome |-> "write_failed"]

\* job.func(*job.args) for each job, over the inputs its collaborators supply
PipelineResults(j) ==
    IF j = "viral_video_gen"
    THEN {process_video(f, s, r) : f \in FetchResults, s \in ScriptResults, r \in RenderResults}
    ELSE {build_pages(w) : w \in WriteResults}

\* executors.base.run_job: EVENT_JOB_ERROR if the call raised, else EVENT_JOB_EXECUTED
JobEvent(res) == IF res.raised THEN "Failed" ELSE "Success"

\* --------------------------------------------------------------- state

Init ==
    /\ now = 0
    /\ proc = "down"
    /\ schedAlive = FALSE
    /\ interval = ConfiguredInterval
    /\ store = [j \in Jobs |-> NoRecord]
    /\ storeState = "ok"
    /\ running = {}
    /\ runState = [j \in Jobs |-> NeverRun]
    /\ crashes = 0
    /\ faults = 0
    /\ video = NoVideoRun

\* scheduler.add_job(func, 'interval', hours=h, id=j, replace_existing=True),
\* made real by scheduler.start(): the trigger is built afresh (start_date =
\* now + interval), next_run_time is computed from it, and the record stored
\* under the same id is overwritten.
\* (variant: the trigger starts at once instead of one interval from now)
M_add_job_Immediate(j, t) == [next_run_time |-> t, start_date |-> t]

add_job(j, t) ==
    LET start == t + interval[j]
    IN [next_run_time |-> GetNextFireTime(None, t, start, interval[j]),
        start_date |-> start]

\* main(): init_db(), the jobstore/executor setup, the two add_job calls and
\* scheduler.start(). An unreachable or unwritable database raises out of
\* init_db()/start(), which main() does not catch: the process does not come up.
main ==
    /\ proc = "down"
    /\ storeState = "ok"
    /\ proc' = "up"
    /\ schedAlive' = TRUE
    /\ store' = [j \in Jobs |-> add_job(j, now)]
    /\ running' = {}
    /\ UNCHANGED <<now, interval, storeState, runState, crashes, faults>>
    /\ UNCHANGED video

\* The process is killed: its threads and in-memory state are gone, the
\* database file stays.
Crash ==
    /\ proc = "up"
    /\ crashes + faults < MaxDisruptions
    /\ proc' = "down"
    /\ schedAlive' = FALSE
    /\ running' = {}
    /\ crashes' = crashes + 1
    /\ UNCHANGED <<now, interval, store, storeState, runState, faults>>
    /\ UNCHANGED video

\* jobstore.get_due_jobs(now)
DueJobs == {j \in Jobs : store[j] # NoRecord /\ store[j].next_run_time <= now}

\* The scheduler thread wakes at the earliest next_run_time: it processes due
\* jobs before the clock moves on, unless it is dead or cannot read the store.
\* (variant: the loop does not look at the scheduler's stopped state)
M_SchedulerReady_IgnoresStop ==
    proc \in {"up", "stopping"} /\ storeState # "down" /\ DueJobs # {}

\* (variant: the loop waits for the submitted runs before it looks again)
M_SchedulerReady_WaitsForRuns ==
    proc = "up" /\ schedAlive /\ storeState # "down" /\ DueJobs # {} /\ running = {}

SchedulerReady ==
    proc = "up" /\ schedAlive /\ storeState # "down" /\ DueJobs # {}

\* The clock's origin is the first boot.
Tick(limit) ==
    /\ now < limit
    /\ proc \in {"up", "stopping"} \/ crashes > 0
    /\ ~SchedulerReady
    /\ now' = now + 1
    /\ UNCHANGED <<proc, schedAlive, interval, store, storeState, running, runState,
                   crashes, faults>>
    /\ UNCHANGED video

\* The run the scheduler submits for due job j at time t
Submission(j, t) ==
    LET rts == Coalesce(GetRunTimes(store[j].next_run_time, t, interval[j]))
    IN [job |-> j, pool |-> JobExecutor(j), run_time |-> rts[1], submitted |-> t]

\* BaseScheduler._process_jobs for the jobs in `due`: submit each unless its
\* executor is at max_instances, then store its next fire time.
Submitted(due) ==
    {Submission(j, now) : j \in {k \in due : CanSubmit(JobExecutor(k), k)}}

Dispatched(rs, due) ==
    [j \in Jobs |-> IF j \in {r.job : r \in Submitted(due)}
                    THEN [rs[j] EXCEPT !.lastFireAt = Submission(j, now).run_time]
                    ELSE rs[j]]

Rescheduled(st, due) ==
    [j \in Jobs |-> IF j \in due
                    THEN [st[j] EXCEPT !.next_run_time =
                             GetNextFireTime(Submission(j, now).run_time, now,
                                             st[j].start_date, interval[j])]
                    ELSE st[j]]

\* One wake-up of the scheduler thread (BackgroundScheduler's _main_loop ->
\* _process_jobs). With the store writable every due job is submitted and
\* rescheduled. With the store refusing writes, jobstore.update_job raises
\* after the first due job was submitted; nothing catches it in _process_jobs
\* or _main_loop, so the scheduler thread ends.
ProcessJobs ==
    /\ SchedulerReady
    /\ \/ /\ storeState = "ok"
          /\ running' = running \cup Submitted(DueJobs)
          /\ runState' = Dispatched(runState, DueJobs)
          /\ store' = Rescheduled(store, DueJobs)
          /\ UNCHANGED schedAlive
       \/ /\ storeState = "locked"
          /\ \E first \in DueJobs :
                /\ \A k \in DueJobs : store[first].next_run_time <= store[k].next_run_time
                /\ running' = running \cup Submitted({first})
                /\ runState' = Dispatched(runState, {first})
          /\ schedAlive' = FALSE
          /\ UNCHANGED store
    /\ UNCHANGED <<now, proc, interval, storeState, crashes, faults>>
    /\ UNCHANGED video

\* What the completion callback of run_job leaves as the job's run state
Completed(rs, res, t) ==
    [rs EXCEPT !.lastRunAt = t,
               !.lastStatus = JobEvent(res),
               !.lastOutcome = res.outcome,
               !.consecutiveFailures = IF JobEvent(res) = "Failed" THEN @ + 1 ELSE 0,
               !.runs = @ + 1]

\* run_job's misfire check: the pool thread starts the run when it is
\* submitted; a run time more than misfire_grace_time (1 s) old is not run.
Missed(r) == r.submitted > r.run_time

\* executors.base.run_job on a pool thread, then the executor's callback
\* (_run_job_success): the instance count drops and the event is logged.
RunJob(r) ==
    /\ r \in running
    /\ running' = running \ {r}
    /\ IF Missed(r)
       THEN UNCHANGED runState
       ELSE \E res \in PipelineResults(r.job) :
               runState' = [runState EXCEPT ![r.job] = Completed(@, res, now)]
    /\ UNCHANGED <<now, proc, schedAlive, interval, store, storeState, crashes, faults>>
    /\ UNCHANGED video

\* The database becomes unwritable (SQLite "database is locked") or
\* unreachable, and comes back.
StoreFault ==
    /\ storeState = "ok"
    /\ crashes + faults < MaxDisruptions
    /\ \E s \in {"locked", "down"} : storeState' = s
    /\ faults' = faults + 1
    /\ UNCHANGED <<now, proc, schedAlive, interval, store, running, runState, crashes>>
    /\ UNCHANGED video

StoreRecover ==
    /\ storeState # "ok"
    /\ storeState' = "ok"
    /\ UNCHANGED <<now, proc, schedAlive, interval, store, running, runState, crashes,
                   faults>>
    /\ UNCHANGED video

Advance == Tick(MaxTime)

Execute == \E r \in running : RunJob(r)

Next ==
    \/ main
    \/ Crash
    \/ Advance
    \/ ProcessJobs
    \/ Execute
    \/ StoreFault
    \/ StoreRecover

Spec == Init /\ [][Next]_vars

\* ------------------------------------------- the end-to-end scenario
\* Job A = seo_regen (interval 5, I/O pool), job B = viral_video_gen
\* (interval 10, CPU pool), empty store, boot at t = 0, no crash, no storage
\* fault, and every pipeline returns before the clock moves.

InitE2E ==
    /\ now = 0
    /\ proc = "down"
    /\ schedAlive = FALSE
    /\ interval = [j \in Jobs |-> IF j = "seo_regen" THEN 5 ELSE 10]
    /\ store = [j \in Jobs |-> NoRecord]
    /\ storeState = "ok"
    /\ running = {}
    /\ runState = [j \in Jobs |-> NeverRun]
    /\ crashes = 0
    /\ faults = 0
    /\ video = NoVideoRun

AdvanceE2E == running = {} /\ Tick(E2EHorizon)

NextE2E ==
    \/ main
    \/ AdvanceE2E
    \/ ProcessJobs
    \/ Execute

SpecE2E == InitE2E /\ [][NextE2E]_vars

\* ------------------------------------------------------------ shutdown

\* except (KeyboardInterrupt, SystemExit): scheduler.shutdown(). The
\* scheduler's state becomes STOPPED, so its loop ends, and shutdown (wait =
\* True by default) then blocks in the executors' shutdown until every
\* submitted run has returned.
Shutdown ==
    /\ proc = "up"
    /\ proc' = "stopping"
    /\ schedAlive' = FALSE
    /\ UNCHANGED <<now, interval, store, storeState, running, runState, crashes, faults>>
    /\ UNCHANGED video

\* scheduler.shutdown() returns once no run is left in the pools; main()
\* returns and the process ends.
Exit ==
    /\ proc = "stopping"
    /\ running = {}
    /\ proc' = "exited"
    /\ UNCHANGED <<now, schedAlive, interval, store, storeState, running, runState,
                   crashes, faults>>
    /\ UNCHANGED video

\* The process with a healthy database and no crash, up to its shutdown. The
\* scheduler thread and the main thread are scheduled by the operating
\* system: a wake-up that is due happens, and shutdown() returns once it can.
\* Nothing makes a pipeline return.
NextLive ==
    \/ main
    \/ Advance
    \/ ProcessJobs
    \/ Execute
    \/ Shutdown
    \/ Exit

SpecLive == Init /\ [][NextLive]_vars /\ WF_vars(ProcessJobs) /\ WF_vars(Exit)

\* ------------------------------------------------- the video pipeline
MaxVideoRuns == 3

\* One call of process_video, as the executor makes it. temp_video_<time> and
\* stake_short_<time> carry the second of the call in their names, so files
\* of runs hours apart add up.
ProcessVideoRun ==
    /\ video.runs < MaxVideoRuns
    /\ \E f \in FetchResults, s \in ScriptResults, r \in RenderResults :
          LET res == process_video(f, s, r)
          IN video' = [runs |-> video.runs + 1,
                       temp |-> video.temp + (IF res.temp THEN 1 ELSE 0),
                       outputs |-> video.outputs + (IF res.output THEN 1 ELSE 0),
                       input |-> <<[fetch |-> f, script |-> s, render |-> r]>>,
                       last |-> <<res>>]
    /\ UNCHANGED <<now, proc, schedAlive, interval, store, storeState, running, runState,
                   crashes, faults>>

NextVideo == ProcessVideoRun

SpecVideo == Init /\ [][NextVideo]_vars

\* -------------------------------------------------------------- claims

InFlight(j) == {r \in running : r.job = j}

HasRecord(j) == store[j] # NoRecord

\* C1: in every reachable state at most one execution of each job id is in
\* flight, whatever the interleaving of scheduler wake-ups and completions,
\* also when a run outlasts the job's interval.
NoOverlap == \A j \in Jobs : Cardinality(InFlight(j)) <= 1

\* A run still in flight one interval after its fire time, whose next firing
\* was therefore skipped and rescheduled.
NoOverlapWitness ==
    \E r \in running :
        /\ now >= r.run_time + interval[r.job]
        /\ store[r.job].next_run_time > r.run_time + interval[r.job]

StartupCatchUp ==
    [][\A j \in Jobs :
          (proc = "down" /\ proc' = "up" /\ HasRecord(j) /\ store[j].next_run_time < now)
              => store'[j].next_run_time <= now']_vars

\* C4: after a crash and restart the job's next execution is at most one
\* tick (one hour here) later than the one the persisted schedule held.
CrashRecovery ==
    [][\A j \in Jobs :
          (proc = "down" /\ proc' = "up" /\ HasRecord(j))
              => store'[j].next_run_time <=
                    (IF store[j].next_run_time > now' THEN store[j].next_run_time ELSE now') + 1]_vars

\* C5: every execution runs in the pool of its job's declared category.
PoolRouting == \A r \in running : r.pool = DeclaredPool(r.job)

\* C6: a completed run is recorded Success exactly when it produced its
\* artifact, and Failed otherwise.
FailureRecording ==
    \A j \in Jobs :
        runState[j].runs >= 1 =>
            runState[j].lastStatus =
                (IF runState[j].lastOutcome = "artifact" THEN "Success" ELSE "Failed")

\* C7: consecutiveFailures grows by exactly one at each failed run, is reset
\* to zero at each successful run and changes at no other step.
FailureCounter ==
    [][\A j \in Jobs :
          IF runState'[j].runs = runState[j].runs + 1
          THEN runState'[j].consecutiveFailures =
                  (IF runState'[j].lastOutcome = "artifact" THEN 0
                   ELSE runState[j].consecutiveFailures + 1)
          ELSE runState'[j].consecutiveFailures = runState[j].consecutiveFailures]_vars

\* C8: while the process stays up nothing that happens to one job stops the
\* scheduler's loop, and a completion of one job leaves the other job's run
\* state and stored schedule as they were.
FailureIsolation ==
    [][/\ (proc = "up" /\ proc' = "up" /\ schedAlive) => schedAlive'
       /\ \A j \in Jobs :
             runState'[j].runs = runState[j].runs + 1 =>
                 \A k \in Jobs \ {j} : runState'[k] = runState[k] /\ store'[k] = store[k]]_vars

\* C10: in the end-to-end scenario the k-th run of a job completes at k times
\* its interval, no two runs of a job overlap, and at t = 21 job A has
\* completed 4 runs, job B 2, and the store holds nextRunAt 25 and 30.
EndToEndSchedule ==
    /\ \A j \in Jobs :
          /\ Cardinality(InFlight(j)) <= 1
          /\ runState[j].runs >= 1 => runState[j].lastRunAt = interval[j] * runState[j].runs
    /\ now = 21 =>
          /\ runState["seo_regen"].runs = 4
          /\ runState["viral_video_gen"].runs = 2
          /\ store["seo_regen"].next_run_time = 25
          /\ store["viral_video_gen"].next_run_time = 30

EndToEndWitness ==
    /\ now = 21
    /\ runState["seo_regen"].runs = 4
    /\ runState["viral_video_gen"].runs = 2

\* C11: once the shutdown signal has been observed no execution is started
\* and no firing is handled, also for a job that falls due afterwards; once
\* the process has terminated its run state does not change.
ShutdownStopsDispatch ==
    [][(proc = "stopping" \/ proc = "exited") =>
          (/\ running' \subseteq running
           /\ store' = store
           /\ \A j \in Jobs : runState'[j].lastFireAt = runState[j].lastFireAt
           /\ (proc = "exited" => runState' = runState))]_vars

\* A job falls due while shutdown() is waiting for a run in flight.
ShutdownWitness == proc = "stopping" /\ DueJobs # {} /\ running # {}

\* C12: after the shutdown signal the process eventually terminates, also
\* when a pipeline in flight never returns.
ShutdownTerminates == (proc = "stopping") ~> (proc = "exited")

\* C13: through a storage outage the scheduler keeps running: a job that was
\* dispatched has its next run time moved past the dispatched fire time, a
\* job that is due while the store is reachable has a live scheduler to
\* dispatch it, and no firing that fell due during the outage is dropped.
StorageOutage ==
    proc = "up" =>
        /\ \A j \in Jobs :
              (HasRecord(j) /\ runState[j].lastFireAt # None)
                  => store[j].next_run_time > runState[j].lastFireAt
        /\ (storeState = "ok" /\ DueJobs # {}) => schedAlive
        /\ \A r \in running : ~Missed(r)

\* C14: a job's record, once created, is never deleted, and a boot leaves the
\* run state it holds as it was.
RecordKept ==
    [][\A j \in Jobs :
          HasRecord(j) =>
              /\ store'[j] # NoRecord
              /\ (proc = "down" /\ proc' = "up") => store'[j] = store[j]]_vars

\* C15: a job that is due while the process is up and another job's run is
\* in flight is eventually dispatched (or the process is shut down first),
\* whether or not the run in flight ever returns.
NonBlockingDispatch ==
    \A j \in Jobs :
        (proc = "up" /\ j \in DueJobs /\ InFlight(j) = {} /\ running # {})
            ~> (proc # "up" \/ (InFlight(j) # {} /\ j \notin DueJobs))

\* Runs of both jobs in flight, one dispatched while the other was running.
NonBlockingWitness ==
    \E r1 \in running, r2 \in running :
        r1.job # r2.job /\ r1.submitted < r2.submitted /\ proc = "up"

\* The status lines among a run's log lines
StatusMessages(log) == {i \in 1..Len(log) : log[i] \in StatusLines}

\* C16: every completed run, successful or failed, emitted exactly one status
\* message, a video run that ended because no footage was fetched included.
CompletionMessage ==
    \A i \in 1..Len(video.last) : Cardinality(StatusMessages(video.last[i].log)) = 1

\* C17: no sequence of video runs leaves a temp_video file behind: after every
\* return of process_video, whether rendering succeeded or a step raised, the
\* footage file that fetch_footage put on disk has been removed.
TempFileCleanup == video.temp = 0

\* C18: a failure of the footage request, of the script request or of the
\* editing/rendering steps never leaves process_video: after a footage
\* failure only fetch_footage was called and no output was written, after a
\* script failure the caption is the fallback sentence, a rendering exception
\* is caught, and the call returns normally in all these cases.
FaultSwallowing ==
    \A i \in 1..Len(video.last) :
        LET in == video.input[i]
            res == video.last[i]
        IN /\ ~res.raised
           /\ in.fetch # "ok" =>
                 res.calls = <<"fetch_footage">> /\ ~res.output /\ res.outcome = "fetch_failed"
           /\ (in.fetch = "ok" /\ in.script # "ok") =>
                 res.script = "Risk everything to win everything. Link in bio."
           /\ (in.fetch = "ok" /\ in.render # "ok") =>
                 ~res.output /\ res.outcome = "render_failed"

\* a run whose footage arrived, whose script request failed and whose
\* rendering raised, the last of MaxVideoRuns runs that wrote no output
FaultSwallowingWitness ==
    /\ video.runs = MaxVideoRuns
    /\ video.outputs = 0
    /\ \E i \in 1..Len(video.input) :
          /\ video.input[i] = [fetch |-> "ok", script |-> "exception", render |-> "exception"]
          /\ video.last[i].outcome = "render_failed"

====
